---- MODULE Spec2Model ----
(***************************************************************************)
(* Event fabric and fan-out aggregation of the wealth-management services. *)
(*                                                                         *)
(* One service process (svc, fixed at Init) is modelled in full: its       *)
(* start(), every invocation of connectRabbitMQ with one step per await,   *)
(* the retry timer, the consume callback, publishEvent and the request     *)
(* handlers that call it.  The broker is modelled by the one exchange, the *)
(* service's own durable queue and its bindings; the other services and    *)
(* other AMQP clients appear as publishers on the shared exchange.         *)
(* The health aggregation of service-service has its own specification.    *)
(***************************************************************************)
EXTENDS Integers, Sequences, FiniteSets, TLC

\* ------------------------------------------------------------------ bounds
MaxFaults == 2        \* operations the broker refuses and connections it closes
MaxMsgs == 2          \* messages the exchange routes to the queue
MaxEntities == 2      \* assets, and liabilities, a downstream list holds
MaxRows == 2          \* rows ever inserted into a service's table
MaxClients == 2       \* concurrent POST /api/users/profile requests

\* ---------------------------------------------------------------- services
Services == {"user", "asset", "liability", "networth", "document", "service"}

\* services whose start() awaits initDB() before connectRabbitMQ()
HasDB(s) == s \in {"user", "asset", "liability", "document"}

\* services that define publishEvent
HasPublish(s) == s \in {"user", "asset", "liability", "networth", "document"}

\* Routing keys are dot-segmented strings; a key is the tuple of its segments.
UserKeys ==
  { <<"user", "registered">>, <<"user", "logged_in">>,
    <<"user", "profile", "added">>, <<"user", "profile", "updated">> }

AssetKeys ==
  { <<"asset", "cash", "added">>, <<"asset", "investment", "added">>,
    <<"asset", "property", "added">>, <<"asset", "other", "added">>,
    <<"asset", "updated">>, <<"asset", "deleted">> }

LiabilityKeys ==
  { <<"liability", "short_term", "added">>, <<"liability", "long_term", "added">>,
    <<"liability", "updated">>, <<"liability", "deleted">> }

NetworthKeys == { <<"networth", "calculated">> }

DocumentKeys == { <<"document", "added">>, <<"document", "deleted">> }

\* the event types each service passes to publishEvent
Catalogue(s) ==
  CASE s = "user" -> UserKeys
    [] s = "asset" -> AssetKeys
    [] s = "liability" -> LiabilityKeys
    [] s = "networth" -> NetworthKeys
    [] s = "document" -> DocumentKeys
    [] OTHER -> {}

AllKeys == UNION { Catalogue(s) : s \in Services }

\* the patterns connectRabbitMQ binds the service's queue to, in call order
BindPatternsEverything(s) ==
  CASE s \in {"asset", "liability", "networth", "document"} -> << <<"#">> >>
    [] OTHER -> << >>

BindPatternsFirstOnly(s) ==
  CASE s \in {"asset", "liability"} -> << <<"user", "#">> >>
    [] s \in {"networth", "document"} -> << <<"asset", "#">> >>
    [] OTHER -> << >>

BindPatterns(s) ==
  CASE s \in {"asset", "liability"} -> << <<"user", "#">> >>
    [] s \in {"networth", "document"} -> << <<"asset", "#">>, <<"liability", "#">> >>
    [] OTHER -> << >>

Subscribing(s) == BindPatterns(s) # << >>

\* Topic-exchange matching: "*" is exactly one segment, "#" zero or more.
RECURSIVE Matches(_, _)
Matches(p, k) ==
  IF p = << >> THEN k = << >>
  ELSE IF Head(p) = "#"
       THEN Matches(Tail(p), k) \/ (k # << >> /\ Matches(p, Tail(k)))
       ELSE /\ k # << >>
            /\ (Head(p) = "*" \/ Head(p) = Head(k))
            /\ Matches(Tail(p), Tail(k))

\* ---------------------------------------------------------------- messages
\* eventType values that are not strings
Undefined == << >>
NumberValue == << "0" >>

\* A message body: json = the bytes are valid JSON; isNull = the JSON value
\* is null; eventType, data = the fields of the object.
Body(j, n, t, d) == [json |-> j, isNull |-> n, eventType |-> t, data |-> d]

\* JSON.stringify({ eventType, data, timestamp }) of publishEvent
Stringify(eventType) == Body(TRUE, FALSE, eventType, TRUE)

Garbage == Body(FALSE, FALSE, Undefined, FALSE)
NullBody == Body(TRUE, TRUE, Undefined, FALSE)

Msg(k, b) == [key |-> k, body |-> b]

\* what the services' publishEvent puts on the exchange: per service one key
\* of two segments and, where the catalogue has one, one of three
PublishedKeys ==
  { <<"user", "registered">>, <<"user", "profile", "added">>,
    <<"asset", "updated">>, <<"asset", "cash", "added">>,
    <<"liability", "deleted">>, <<"liability", "short_term", "added">>,
    <<"networth", "calculated">>, <<"document", "added">> }

ServiceMessages == { Msg(k, Stringify(k)) : k \in PublishedKeys }

\* what any other client of the broker may put on the exchange
ForeignKeys == { <<"user", "registered">>, <<"asset", "updated">> }

ForeignBodies(k) ==
  { Garbage, NullBody,
    Body(TRUE, FALSE, k, FALSE),
    Body(TRUE, FALSE, NumberValue, TRUE) }

ForeignMessages ==
  UNION { { Msg(k, b) : b \in ForeignBodies(k) } : k \in ForeignKeys }

\* JSON.parse(msg.content.toString())
JSONParse(b) == [threw |-> ~b.json, event |-> b]

IsString(t) == t # Undefined /\ t # NumberValue

\* eventType.startsWith(family + '.')
StartsWith(t, family) == Len(t) >= 2 /\ t[1] = family

\* The consume callback up to channel.ack: TRUE iff it throws.
CallbackThrows(s, b) ==
  LET p == JSONParse(b)
      e == p.event
  IN  \/ p.threw
      \/ e.isNull                                  \* event.eventType of null
      \/ /\ s \in {"asset", "liability"}
         /\ e.eventType = <<"user", "registered">>
         /\ ~e.data                                \* event.data.userId
      \/ /\ s = "networth"
         /\ \/ ~IsString(e.eventType)              \* eventType.startsWith
            \/ /\ StartsWith(e.eventType, "asset") \/ StartsWith(e.eventType, "liability")
               /\ ~e.data

\* ------------------------------------------------------------------- state
VARIABLES
  svc,          \* the service this process runs
  alive,        \* the process has not exited
  started,      \* start() has been called
  listening,    \* app.listen has been called
  att,          \* one entry per invocation of connectRabbitMQ: [pc, b, ex]
  channel,      \* the module-level channel handle: 0 = undefined, else the
                \* invocation whose createChannel produced it
  timers,       \* pending setTimeout(connectRabbitMQ, 5000) timers
  openConns,    \* connections of this process the broker holds open
  faults,       \* operations refused and connections closed so far
  exchange,     \* the topic exchange is declared
  queueDeclared,\* the service's durable queue is declared
  bindings,     \* patterns the queue is bound to
  consumers,    \* channels with a consumer on the queue
  queue,        \* messages ready in the queue
  unacked,      \* [msg, ch]: delivered on ch, callback finished, not acked
  routed,       \* history: messages the exchange put in the queue
  received,     \* history: messages passed to the consume callback
  consumeLog,   \* history: [ch, declared, bound] at each channel.consume
  lastReq,      \* history: the last request handled
  hreq,         \* health aggregation: state of the request
  probe,        \* health aggregation: state of each axios.get
  results,      \* health aggregation: the array Promise.all fills
  completed,    \* health aggregation: indices in completion order
  response,     \* health aggregation: the response sent
  published,    \* history: the last message a handler gave to channel.publish
  steps,        \* history: the effects of the last publishing request, in order
  nwReq,        \* net-worth aggregation: [route, header] of the request
  nwPc,         \* net-worth aggregation: position of the handler
  nwCalls,      \* net-worth aggregation: the axios.get calls issued, in order
  nwData,       \* net-worth aggregation: response data of the calls
  nwResp,       \* net-worth aggregation: the response sent
  nwPayload,    \* net-worth aggregation: data of the last publishEvent call
  rows,         \* asset, liability or document rows: [id, owner, v]
  nextId,       \* the next value of the table's SERIAL id
  lastStore,    \* history: the last request to a row route
  users,        \* rows of the users table: [email, password]
  profiles,     \* number of user_profiles rows of the one user
  addedEvents,  \* history: user.profile.added messages given to the broker
  clients,      \* POST /api/users/profile requests in flight: [pc, existed]
  lastUser,     \* history: the last register, login or profile request
  lookup        \* GET /api/services/:name: the request and its response

fabricVars == << svc, alive, started, listening, att, channel, timers, openConns,
                 faults, exchange, queueDeclared, bindings, consumers,
                 queue, unacked, routed, received, consumeLog, lastReq >>

healthVars == << hreq, probe, results, completed, response >>

reqVars == << published, steps >>

nwVars == << nwReq, nwPc, nwCalls, nwData, nwResp, nwPayload >>

storeVars == << rows, nextId, lastStore >>

userVars == << users, profiles, addedEvents, clients, lastUser >>

apiVars == << storeVars, userVars, lookup >>

vars == << svc, alive, started, listening, att, channel, timers, openConns,
           faults, exchange, queueDeclared, bindings, consumers,
           queue, unacked, routed, received, consumeLog, lastReq,
           hreq, probe, results, completed, response,
           published, steps, nwReq, nwPc, nwCalls, nwData, nwResp, nwPayload,
           rows, nextId, lastStore, users, profiles, addedEvents, clients,
           lastUser, lookup >>

\* --------------------------------------------------------- the registry
\* SERVICES of service-service, in declaration order
SERVICES == << "user-service", "asset-service", "liability-service",
               "networth-service", "document-service" >>

NoResponse == [status |-> 0, services |-> << >>]
NoReq == [key |-> << >>, db |-> "none", pub |-> "none", status |-> 0,
          declared |-> FALSE]
NoMsg == Msg(<< >>, Garbage)
NoNwReq == [route |-> "", header |-> << >>]
NoNwResp == [status |-> 0, body |-> << >>]
NoPayload == [none |-> TRUE]

\* ----------------------------------------------------------------- initial
InitFabric ==
  /\ alive = TRUE
  /\ started = FALSE
  /\ listening = FALSE
  /\ att = << >>
  /\ channel = 0
  /\ timers = 0
  /\ openConns = {}
  /\ faults = 0
  /\ exchange = FALSE
  /\ queueDeclared = FALSE
  /\ bindings = {}
  /\ consumers = {}
  /\ queue = << >>
  /\ unacked = {}
  /\ routed = {}
  /\ received = {}
  /\ consumeLog = {}
  /\ lastReq = NoReq

InitHealth ==
  /\ hreq = "none"
  /\ probe = [i \in 1..Len(SERVICES) |-> "idle"]
  /\ results = << >>
  /\ completed = << >>
  /\ response = NoResponse

InitReq ==
  /\ published = NoMsg
  /\ steps = << >>

InitNetworth ==
  /\ nwReq = NoNwReq
  /\ nwPc = "idle"
  /\ nwCalls = << >>
  /\ nwData = << >>
  /\ nwResp = NoNwResp
  /\ nwPayload = NoPayload

NoStore == [op |-> "none", header |-> << >>, id |-> 0, db |-> "none",
            status |-> 0, returned |-> {}, pub |-> "none"]
NoUser == [op |-> "none", email |-> "", password |-> "", header |-> << >>,
           db |-> "none", status |-> 0, stored |-> FALSE, existed |-> FALSE,
           key |-> << >>, pub |-> "none"]
NoLookup == [pc |-> "idle", name |-> "", probes |-> 0, outcome |-> "none",
             status |-> 0, service |-> [name |-> "", status |-> ""]]
Idle == [pc |-> "idle", header |-> << >>, existed |-> FALSE]

\* jwt.verify hands the token's payload to the handler: req.user.userId
Users == {"A", "B"}

InitApi ==
  /\ rows = {}
  /\ nextId = 1
  /\ lastStore = NoStore
  /\ users = {}
  /\ profiles = [u \in Users |-> 0]
  /\ addedEvents = [u \in Users |-> 0]
  /\ clients = [p \in 1..MaxClients |-> Idle]
  /\ lastUser = NoUser
  /\ lookup = NoLookup

Init ==
  /\ svc \in Services
  /\ InitFabric
  /\ InitHealth
  /\ InitReq
  /\ InitNetworth
  /\ InitApi

\* ------------------------------------------------------ connectRabbitMQ
NewAttempt == [pc |-> "connect", b |-> 0, ex |-> FALSE]

InProgress(i) == att[i].pc \notin {"ok", "failed"}

\* the catch block: setTimeout(connectRabbitMQ, 5000)
CatchSchedulesTwice(t) == t + 2

CatchNoRetry(t) == t

CatchSchedules(t) == t + 1

\* start() awaits the first invocation and then calls app.listen; a later
\* invocation is a timer callback and nobody awaits it.
ListenAfter(i, l) == IF i = 1 THEN TRUE ELSE l

\* an awaited broker operation of invocation i rejects: the catch block runs
\* and connectRabbitMQ returns normally
Rejects(i, possible) ==
  /\ \/ ~possible
     \/ faults < MaxFaults
  /\ faults' = IF possible THEN faults + 1 ELSE faults
  /\ att' = [att EXCEPT ![i].pc = "failed", ![i].b = 0]
  /\ timers' = CatchSchedules(timers)
  /\ listening' = ListenAfter(i, listening)

\* the end of the try block: no timer is set
SuccessSchedules(t) == t + 1

AfterSuccess(t) == t

\* connectRabbitMQ of invocation i returns after its last statement
Returns(i, x) ==
  /\ att' = [att EXCEPT ![i].pc = "ok", ![i].b = 0, ![i].ex = x]
  /\ listening' = ListenAfter(i, listening)
  /\ timers' = AfterSuccess(timers)
  /\ UNCHANGED faults

\* start(): await initDB() where the service has a database, then
\* await connectRabbitMQ()
Start ==
  /\ alive /\ ~started
  /\ started' = TRUE
  /\ \E dbOk \in BOOLEAN :
       IF HasDB(svc) /\ ~dbOk
       THEN \* initDB rejects, start() rejects, nothing else runs
            UNCHANGED att
       ELSE att' = Append(att, NewAttempt)
  /\ UNCHANGED << svc, alive, listening, channel, timers, openConns, faults,
                  exchange, queueDeclared, bindings, consumers, queue,
                  unacked, routed, received, consumeLog, lastReq >>
  /\ UNCHANGED << healthVars, reqVars, nwVars, apiVars >>

\* the retry timer fires and calls connectRabbitMQ
TimerFire ==
  /\ alive /\ timers > 0
  /\ timers' = timers - 1
  /\ att' = Append(att, NewAttempt)
  /\ UNCHANGED << svc, alive, started, listening, channel, openConns, faults,
                  exchange, queueDeclared, bindings, consumers, queue,
                  unacked, routed, received, consumeLog, lastReq >>
  /\ UNCHANGED << healthVars, reqVars, nwVars, apiVars >>

\* const connection = await amqp.connect(...)
Connect(i) ==
  /\ alive /\ att[i].pc = "connect"
  /\ \/ /\ att' = [att EXCEPT ![i].pc = "createChannel"]
        /\ openConns' = openConns \cup {i}
        /\ UNCHANGED << timers, faults, listening >>
     \/ /\ Rejects(i, TRUE)
        /\ UNCHANGED openConns
  /\ UNCHANGED << svc, alive, started, channel, exchange, queueDeclared,
                  bindings, consumers, queue, unacked, routed,
                  received, consumeLog, lastReq >>
  /\ UNCHANGED << healthVars, reqVars, nwVars, apiVars >>

\* channel = await connection.createChannel()
CreateChannel(i) ==
  /\ alive /\ att[i].pc = "createChannel"
  /\ \/ /\ i \in openConns
        /\ att' = [att EXCEPT ![i].pc = "assertExchange"]
        /\ channel' = i
        /\ UNCHANGED << timers, faults, listening >>
     \/ /\ Rejects(i, i \in openConns)
        /\ UNCHANGED channel
  /\ UNCHANGED << svc, alive, started, openConns, exchange, queueDeclared,
                  bindings, consumers, queue, unacked, routed,
                  received, consumeLog, lastReq >>
  /\ UNCHANGED << healthVars, reqVars, nwVars, apiVars >>

\* await channel.assertExchange(EXCHANGE_NAME, 'topic', { durable: true });
\* the services without a subscription return after it
AssertExchange(i) ==
  /\ alive /\ att[i].pc = "assertExchange"
  /\ \/ /\ channel \in openConns
        /\ exchange' = TRUE
        /\ IF Subscribing(svc)
           THEN /\ att' = [att EXCEPT ![i] = [pc |-> "assertQueue", b |-> 0, ex |-> TRUE]]
                /\ UNCHANGED << timers, faults, listening >>
           ELSE Returns(i, TRUE)
     \/ /\ Rejects(i, channel \in openConns)
        /\ UNCHANGED exchange
  /\ UNCHANGED << svc, alive, started, channel, openConns, queueDeclared,
                  bindings, consumers, queue, unacked, routed,
                  received, consumeLog, lastReq >>
  /\ UNCHANGED << healthVars, reqVars, nwVars, apiVars >>

\* const queue = await channel.assertQueue('<service>_queue', { durable: true })
AssertQueue(i) ==
  /\ alive /\ att[i].pc = "assertQueue"
  /\ \/ /\ channel \in openConns
        /\ queueDeclared' = TRUE
        /\ att' = [att EXCEPT ![i].pc = "bindQueue", ![i].b = 1]
        /\ UNCHANGED << timers, faults, listening >>
     \/ /\ Rejects(i, channel \in openConns)
        /\ UNCHANGED queueDeclared
  /\ UNCHANGED << svc, alive, started, channel, openConns, exchange,
                  bindings, consumers, queue, unacked, routed,
                  received, consumeLog, lastReq >>
  /\ UNCHANGED << healthVars, reqVars, nwVars, apiVars >>

\* await channel.bindQueue(queue.queue, EXCHANGE_NAME, pattern); after the
\* last one channel.consume(queue.queue, callback) and return
BindQueue(i) ==
  /\ alive /\ att[i].pc = "bindQueue"
  /\ \/ /\ channel \in openConns
        /\ bindings' = bindings \cup { BindPatterns(svc)[att[i].b] }
        /\ IF att[i].b < Len(BindPatterns(svc))
           THEN /\ att' = [att EXCEPT ![i].b = @ + 1]
                /\ UNCHANGED << timers, faults, listening, consumers, consumeLog >>
           ELSE /\ consumers' = consumers \cup {channel}
                /\ consumeLog' = consumeLog \cup
                     { [ch |-> channel, declared |-> queueDeclared, bound |-> bindings'] }
                /\ Returns(i, TRUE)
     \/ /\ Rejects(i, channel \in openConns)
        /\ UNCHANGED << bindings, consumers, consumeLog >>
  /\ UNCHANGED << svc, alive, started, channel, openConns, exchange,
                  queueDeclared, queue, unacked, routed, received,
                  lastReq >>
  /\ UNCHANGED << healthVars, reqVars, nwVars, apiVars >>

\* ------------------------------------------------------------ the broker
\* the exchange puts a message in the service's queue
Routes(m) ==
  /\ exchange
  /\ queueDeclared
  /\ \E p \in bindings : Matches(p, m.key)

\* the messages of a set as a sequence
RECURSIVE SeqOf(_)
SeqOf(S) ==
  IF S = {} THEN << >>
  ELSE LET m == CHOOSE x \in S : TRUE
       IN  << m >> \o SeqOf(S \ {m})

Range(q) == { q[n] : n \in 1..Len(q) }

\* unacknowledged deliveries of closed channels go back to the head of the queue
Requeue(q, S) == SeqOf({ u.msg : u \in S }) \o q

\* a service's publishEvent (this service's other instances included), or any
\* other client, publishes a message; no two messages are equal (a body
\* carries its timestamp)
OtherPublish(m) ==
  /\ Cardinality(routed) < MaxMsgs
  /\ m \notin routed
  /\ IF Routes(m)
     THEN /\ queue' = Append(queue, m)
          /\ routed' = routed \cup {m}
     ELSE UNCHANGED << queue, routed >>
  /\ UNCHANGED << svc, alive, started, listening, att, channel, timers, openConns,
                  faults, exchange, queueDeclared, bindings, consumers,
                  unacked, received, consumeLog, lastReq >>
  /\ UNCHANGED << healthVars, reqVars, nwVars, apiVars >>

ServicePublish == \E m \in ServiceMessages : OtherPublish(m)

ForeignPublish == \E m \in ForeignMessages : OtherPublish(m)

\* The broker or the network closes connection c.  connectRabbitMQ registers
\* no 'close' or 'error' listener on the connection or the channel, so
\* nothing in the process changes.
ConnLost(c) ==
  /\ alive /\ c \in openConns
  /\ faults < MaxFaults
  /\ faults' = faults + 1
  /\ openConns' = openConns \ {c}
  /\ consumers' = consumers \ {c}
  /\ queue' = Requeue(queue, { u \in unacked : u.ch = c })
  /\ unacked' = { u \in unacked : u.ch # c }
  /\ UNCHANGED << svc, alive, started, listening, att, channel, timers,
                  exchange, queueDeclared, bindings, routed,
                  received, consumeLog, lastReq >>
  /\ UNCHANGED << healthVars, reqVars, nwVars, apiVars >>

\* ---------------------------------------------------- the consume callback
\* The broker delivers the head of the queue on channel ch and the callback
\* runs: JSON.parse, the handler, channel.ack(msg) on the module-level channel.
\* The callback is an async function nobody awaits: when it throws, the ack
\* is not reached and the rejection is unhandled, which ends the process or
\* only warns, depending on the runtime's unhandled-rejections mode.
Deliver(ch) ==
  /\ alive /\ ch \in consumers /\ queue # << >>
  /\ LET m == Head(queue)
         d == [msg |-> m, ch |-> ch]
     IN  /\ received' = received \cup {m}
         /\ IF ~CallbackThrows(svc, m.body)
            THEN /\ queue' = Tail(queue)
                 /\ unacked' = IF channel = ch THEN unacked ELSE unacked \cup {d}
                 /\ UNCHANGED << alive, listening, channel, timers, openConns, consumers >>
            ELSE \/ /\ queue' = Tail(queue)
                    /\ unacked' = unacked \cup {d}
                    /\ UNCHANGED << alive, listening, channel, timers, openConns, consumers >>
                 \/ /\ alive' = FALSE
                    /\ listening' = FALSE
                    /\ channel' = 0
                    /\ timers' = 0
                    /\ openConns' = {}
                    /\ consumers' = {}
                    /\ queue' = Requeue(Tail(queue), unacked \cup {d})
                    /\ unacked' = {}
  /\ UNCHANGED << svc, started, att, faults, exchange, queueDeclared,
                  bindings, routed, consumeLog, lastReq >>
  /\ UNCHANGED << healthVars, reqVars, nwVars, apiVars >>

\* ------------------------------------------------------------- requests
\* outcomes of the handler's database statement (for login the credential
\* check, for calculate the two downstream calls)
DbOutcomes(k) ==
  IF k[Len(k)] \in {"updated", "deleted", "logged_in"} /\ Len(k) = 2
  THEN {"ok", "error", "norow"}
  ELSE {"ok", "error"}

\* the status of the success response of the route publishing k
SuccessStatus(k) ==
  IF k = <<"user", "registered">> \/ (k[Len(k)] = "added" /\ k[1] # "user")
  THEN 201 ELSE 200

NoRowStatus(k) == IF k = <<"user", "logged_in">> THEN 401 ELSE 404

\* publishEvent(eventType, data): "skipped" when the handle is unset, "sent"
\* when channel.publish hands the message to the broker, "raised" when
\* channel.publish throws because the channel is closed
PublishEvent(eventType) ==
  IF channel = 0 THEN "skipped"
  ELSE IF channel \in openConns THEN "sent"
  ELSE "raised"

\* the handler awaits publishEvent inside its try block: a throw lands in
\* the catch block, which answers 500
StatusAfterPublish(k, pub) == IF pub = "raised" THEN 500 ELSE SuccessStatus(k)

\* channel.publish(EXCHANGE_NAME, eventType, Buffer.from(message)): the
\* routing key of the message is the eventType
RoutingKeyFamily(eventType) == << eventType[1] >>

RoutingKey(eventType) == eventType

\* the effects of a publishing handler in statement order: the database
\* statement, the early return when it matched no row, publishEvent (which
\* reaches channel.publish unless the handle is unset), the response
PublishBeforeQuery(db, pub) == << "publish", "query", "respond" >>

HandlerSteps(db, pub) ==
  << "query" >>
    \o (IF db = "ok" /\ pub # "skipped" THEN << "publish" >> ELSE << >>)
    \o << "respond" >>

\* a request to the route that publishes k, from the database result on
Request(k, db) ==
  /\ alive /\ listening
  /\ k \in Catalogue(svc)
  /\ db \in DbOutcomes(k)
  /\ IF db = "ok"
     THEN LET pub == PublishEvent(k)
              m == Msg(RoutingKey(k), Stringify(k))
          IN  /\ lastReq' = [key |-> k, db |-> db, pub |-> pub,
                             status |-> StatusAfterPublish(k, pub),
                             declared |-> channel # 0 /\ att[channel].ex]
              /\ steps' = HandlerSteps(db, pub)
              /\ published' = IF pub = "sent" THEN m ELSE published
              /\ IF pub = "sent" /\ Routes(m)
                 THEN /\ queue' = Append(queue, m)
                      /\ routed' = routed \cup {m}
                 ELSE UNCHANGED << queue, routed >>
     ELSE /\ lastReq' = [key |-> k, db |-> db, pub |-> "none",
                         status |-> IF db = "error" THEN 500 ELSE NoRowStatus(k),
                         declared |-> FALSE]
          /\ steps' = HandlerSteps(db, "none")
          /\ UNCHANGED << queue, routed, published >>
  /\ UNCHANGED << svc, alive, started, listening, att, channel, timers, openConns,
                  faults, exchange, queueDeclared, bindings, consumers,
                  unacked, received, consumeLog >>
  /\ UNCHANGED << healthVars, nwVars, apiVars >>

\* ------------------------------------------------------ specifications
\* the connection manager and the broker's connections
ConnNext ==
  \/ Start
  \/ TimerFire
  \/ \E i \in 1..Len(att) : Connect(i)
  \/ \E i \in 1..Len(att) : CreateChannel(i)
  \/ \E i \in 1..Len(att) : AssertExchange(i)
  \/ \E i \in 1..Len(att) : AssertQueue(i)
  \/ \E i \in 1..Len(att) : BindQueue(i)
  \/ \E c \in openConns : ConnLost(c)

SpecConn == Init /\ [][ConnNext]_vars

\* ... with the request handlers that publish
ReqNext ==
  \/ ConnNext
  \/ \E k \in AllKeys, db \in {"ok", "error", "norow"} : Request(k, db)

SpecReq == Init /\ [][ReqNext]_vars

\* ... with the publishers on the exchange and the consume callback
MsgNext ==
  \/ ConnNext
  \/ ServicePublish
  \/ ForeignPublish
  \/ \E ch \in consumers : Deliver(ch)

SpecMsg == Init /\ [][MsgNext]_vars

\* ------------------------------------------- GET /api/services/health
Unset == [name |-> "", status |-> ""]

\* authenticateToken: 401 without a token, 403 with a bad one, else next()
AuthStatus(auth) ==
  CASE auth = "none" -> 401
    [] auth = "bad" -> 403
    [] OTHER -> 0

\* the mapper of SERVICES.map: try { await axios.get(url + '/health',
\* { timeout: 3000 }); up } catch { down }; it never rejects
MapperNoCatch(i, outcome) ==
  [rejected |-> outcome # "ok",
   value |-> [name |-> SERVICES[i], status |-> "up"]]

Mapper(i, outcome) ==
  [rejected |-> FALSE,
   value |-> [name |-> SERVICES[i],
              status |-> IF outcome = "ok" THEN "up" ELSE "down"]]

\* Promise.all keeps the value of the i-th promise at index i
StoreInCompletionOrder(arr, i, v) ==
  LET n == CHOOSE j \in 1..Len(arr) :
             arr[j] = Unset /\ \A h \in 1..(j - 1) : arr[h] # Unset
  IN  [arr EXCEPT ![n] = v]

PromiseAllStore(arr, i, v) == [arr EXCEPT ![i] = v]

\* a request arrives; with a valid token the handler maps over SERVICES,
\* which issues every axios.get before the first one completes
HealthRequest(auth) ==
  /\ hreq # "probing"
  /\ completed' = << >>
  /\ IF AuthStatus(auth) # 0
     THEN /\ hreq' = "rejected"
          /\ response' = [status |-> AuthStatus(auth), services |-> << >>]
          /\ probe' = [i \in 1..Len(SERVICES) |-> "idle"]
          /\ results' = << >>
     ELSE /\ hreq' = "probing"
          /\ response' = NoResponse
          /\ probe' = [i \in 1..Len(SERVICES) |-> "pending"]
          /\ results' = [i \in 1..Len(SERVICES) |-> Unset]
  /\ UNCHANGED << fabricVars, reqVars, nwVars, apiVars >>

\* the i-th axios.get settles: it resolves, rejects or times out.  When the
\* last mapper has returned Promise.all resolves and the handler answers;
\* if a mapper rejected, Promise.all rejects and the handler throws without
\* answering.
ProbeComplete(i, outcome) ==
  /\ hreq = "probing" /\ probe[i] = "pending"
  /\ probe' = [probe EXCEPT ![i] = outcome]
  /\ completed' = Append(completed, i)
  /\ LET r == Mapper(i, outcome)
     IN  IF r.rejected
         THEN /\ hreq' = "threw"
              /\ UNCHANGED << results, response >>
         ELSE /\ results' = PromiseAllStore(results, i, r.value)
              /\ IF \A j \in 1..Len(SERVICES) : probe'[j] # "pending"
                 THEN /\ hreq' = "done"
                      /\ response' = [status |-> 200, services |-> results']
                 ELSE UNCHANGED << hreq, response >>
  /\ UNCHANGED << fabricVars, reqVars, nwVars, apiVars >>

HealthNext ==
  \/ \E auth \in {"none", "bad", "valid"} : HealthRequest(auth)
  \/ \E i \in 1..Len(SERVICES), outcome \in {"ok", "error", "timeout"} :
       ProbeComplete(i, outcome)

InitServiceService ==
  /\ svc = "service"
  /\ InitFabric
  /\ InitHealth
  /\ InitReq
  /\ InitNetworth
  /\ InitApi

SpecHealth == InitServiceService /\ [][HealthNext]_vars

\* -------------------------------------------- GET /api/services/:name
\* the path segments a client may send; /api/services/health is taken by
\* the route registered before /api/services/:name
LookupNames == Range(SERVICES) \cup {"unknown-service", "health"}

ReachesNameRoute(name) == name # "health"

\* SERVICES.find(s => s.name === req.params.name): the index, 0 for undefined
Find(name) ==
  IF \E i \in 1..Len(SERVICES) : SERVICES[i] = name
  THEN CHOOSE i \in 1..Len(SERVICES) : SERVICES[i] = name
  ELSE 0

\* try { await axios.get(url + '/health', { timeout: 3000 }); res.json(up) }
\* catch { res.json(down) }
NameResponseNoCatch(i, outcome) ==
  [status |-> IF outcome = "ok" THEN 200 ELSE 500,
   service |-> [name |-> SERVICES[i], status |-> "up"]]

NameResponse(i, outcome) ==
  [status |-> 200,
   service |-> [name |-> SERVICES[i],
                status |-> IF outcome = "ok" THEN "up" ELSE "down"]]

\* a request arrives: authenticateToken, the find, the 404 return, else the
\* handler issues the probe and awaits it
LookupRequest(auth, name) ==
  /\ alive /\ listening /\ svc = "service"
  /\ ReachesNameRoute(name)
  /\ lookup.pc # "probing"
  /\ lookup' =
       IF AuthStatus(auth) # 0
       THEN [NoLookup EXCEPT !.pc = "rejected", !.name = name,
                             !.status = AuthStatus(auth)]
       ELSE IF Find(name) = 0
       THEN [NoLookup EXCEPT !.pc = "done", !.name = name, !.status = 404]
       ELSE [NoLookup EXCEPT !.pc = "probing", !.name = name, !.probes = 1]
  /\ UNCHANGED << fabricVars, healthVars, reqVars, nwVars, storeVars, userVars >>

\* the axios.get settles: it resolves, rejects or times out
LookupProbeComplete(outcome) ==
  /\ alive /\ lookup.pc = "probing"
  /\ LET r == NameResponse(Find(lookup.name), outcome)
     IN  lookup' = [lookup EXCEPT !.pc = "done", !.outcome = outcome,
                                  !.status = r.status, !.service = r.service]
  /\ UNCHANGED << fabricVars, healthVars, reqVars, nwVars, storeVars, userVars >>

\* service-service subscribes to nothing: its connectRabbitMQ ends after
\* assertExchange
LookupNext ==
  \/ Start
  \/ TimerFire
  \/ \E i \in 1..Len(att) : Connect(i)
  \/ \E i \in 1..Len(att) : CreateChannel(i)
  \/ \E i \in 1..Len(att) : AssertExchange(i)
  \/ \E c \in openConns : ConnLost(c)
  \/ \E auth \in {"none", "bad", "valid"}, name \in LookupNames :
       LookupRequest(auth, name)
  \/ \E outcome \in {"ok", "error", "timeout"} : LookupProbeComplete(outcome)

SpecLookup == InitServiceService /\ [][LookupNext]_vars

\* ------------------------------------------------ net-worth aggregation
\* JavaScript values the handlers compute with: numbers, NaN, numeric
\* strings (a NUMERIC column arrives as a string), other strings, undefined,
\* null, and the functions an object inherits from Object.prototype
Num(n) == [kind |-> "number", n |-> n]
NumericString(n) == [kind |-> "numeric", n |-> n]
NaN == [kind |-> "NaN", n |-> 0]
Text == [kind |-> "string", n |-> 0]
Missing == [kind |-> "undefined", n |-> 0]
Null == [kind |-> "null", n |-> 0]
Inherited == [kind |-> "function", n |-> 0]

\* parseFloat(v)
ParseFloat(v) == IF v.kind \in {"number", "numeric"} THEN Num(v.n) ELSE NaN

\* v || 0
OrZero(v) ==
  IF v.kind \in {"undefined", "null", "NaN"} \/ v = Num(0) THEN Num(0) ELSE v

\* a + b: the sum of two numbers; NaN when a number meets NaN; a string as
\* soon as one operand is a string or a function
Plus(a, b) ==
  IF a.kind = "number" /\ b.kind = "number" THEN Num(a.n + b.n)
  ELSE IF a.kind \in {"number", "NaN"} /\ b.kind \in {"number", "NaN"} THEN NaN
  ELSE Text

\* a - b
Minus(a, b) ==
  IF a.kind = "number" /\ b.kind = "number" THEN Num(a.n - b.n) ELSE NaN

\* the amounts and the entities the downstream services answer with
Amounts == {1, 2}

TotalValues == { Missing, Null, Num(0), NumericString(1), NumericString(2) }

AssetTypes == {"cash", "constructor", "__proto__"}
LiabilityTypes == {"short_term", "long_term"}

Entity(t, v) == [type |-> t, value |-> v]

Lists(types) ==
  UNION { [1..n -> { Entity(t, NumericString(v)) : t \in types, v \in Amounts }]
          : n \in 0..MaxEntities }

\* property names every object literal inherits
ObjectPrototypeKeys == {"constructor", "__proto__"}

\* acc[key] of an object built from {}: its own property, else the
\* inherited one, else undefined
GetProp(acc, key) ==
  IF key \in DOMAIN acc THEN acc[key]
  ELSE IF key \in ObjectPrototypeKeys THEN Inherited
  ELSE Missing

\* acc[key] = v; assigning a primitive to __proto__ changes nothing
SetProp(acc, key, v) ==
  IF key = "__proto__" THEN acc
  ELSE [k \in DOMAIN acc \cup {key} |-> IF k = key THEN v ELSE acc[k]]

EmptyObject == [k \in {} |-> Missing]

\* list.reduce((acc, e) => { acc[e.type] = (acc[e.type] || 0) +
\* parseFloat(e.value); return acc; }, {})
RECURSIVE ReduceByType(_, _)
ReduceByType(list, acc) ==
  IF list = << >> THEN acc
  ELSE LET e == Head(list)
       IN  ReduceByType(Tail(list),
             SetProp(acc, e.type,
                     Plus(OrZero(GetProp(acc, e.type)), ParseFloat(e.value))))

\* list.reduce((sum, e) => sum + parseFloat(e.value), 0)
RECURSIVE ReduceSum(_, _)
ReduceSum(list, sum) ==
  IF list = << >> THEN sum
  ELSE ReduceSum(Tail(list), Plus(sum, ParseFloat(Head(list).value)))

\* the result of calculate from the two response bodies
CalculateResult(totalValue, totalAmount) ==
  LET totalAssets == OrZero(ParseFloat(totalValue))
      totalLiabilities == OrZero(ParseFloat(totalAmount))
  IN  [totalAssets |-> totalAssets,
       totalLiabilities |-> totalLiabilities,
       netWorth |-> Minus(totalAssets, totalLiabilities)]

\* the body of breakdown from the two lists
BreakdownResult(assets, liabilities) ==
  LET totalAssets == ReduceSum(assets, Num(0))
      totalLiabilities == ReduceSum(liabilities, Num(0))
  IN  [netWorth |-> Minus(totalAssets, totalLiabilities),
       totalAssets |-> totalAssets,
       totalLiabilities |-> totalLiabilities,
       assetsByType |-> ReduceByType(assets, EmptyObject),
       liabilitiesByType |-> ReduceByType(liabilities, EmptyObject),
       assetCount |-> Len(assets),
       liabilityCount |-> Len(liabilities)]

\* Authorization headers, as the words between spaces
ValidTokens == {"tokA", "tokB"}
Headers ==
  { << >>, <<"tokA">>, <<"Bearer", "bad">>,
    <<"Bearer", "tokA">>, <<"Token", "tokB">> }

\* authenticateToken: authHeader && authHeader.split(' ')[1]; 401 without a
\* token, 403 when jwt.verify fails, else next()
VerifyMissingOnly(header) == IF Len(header) < 2 THEN 401 ELSE 0

VerifyStatus(header) ==
  IF Len(header) < 2 THEN 401
  ELSE IF header[2] \notin ValidTokens THEN 403
  ELSE 0

\* const token = req.headers['authorization']; { headers: { Authorization: token } }
ForwardBearer(header) == << "Bearer", header[2] >>

ForwardHeader(header) == header

AssetsUrl(route) ==
  IF route = "calculate" THEN "asset-service/api/assets/total/value"
  ELSE "asset-service/api/assets"

LiabilitiesUrl(route) ==
  IF route = "calculate" THEN "liability-service/api/liabilities/total/amount"
  ELSE "liability-service/api/liabilities"

\* axios.get(url, { headers: { Authorization: token } }): no timeout option,
\* and the default of axios is no timeout
Call(url, auth) == [url |-> url, auth |-> auth, st |-> "pending"]

\* what a downstream service may answer a call with
Answers(url) ==
  CASE url = AssetsUrl("calculate") -> TotalValues
    [] url = LiabilitiesUrl("calculate") -> TotalValues
    [] url = AssetsUrl("breakdown") -> Lists(AssetTypes)
    [] url = LiabilitiesUrl("breakdown") -> Lists(LiabilityTypes)

ErrorBody == [error |-> TRUE]

\* the catch block: res.status(500).json({ error })
CatchPartial(data) ==
  [status |-> 200,
   body |-> [totalAssets |-> Num(0), totalLiabilities |-> Num(0), netWorth |-> Num(0)]]

CatchResponse(data) == [status |-> 500, body |-> ErrorBody]

\* publishEvent('networth.calculated', result): the data of the message is
\* the object the handler then passes to res.json
PublishedTotals(result) ==
  [totalAssets |-> result.totalAssets, totalLiabilities |-> result.totalLiabilities]

PublishedData(result) == result

\* breakdown has no publishEvent call: its calls, then the response
BreakdownSteps == << "query", "respond" >>

\* a request to GET /api/networth/<route>: authenticateToken, then the
\* handler up to its first await, the call to asset-service
NwRequest(route, header) ==
  /\ alive /\ listening /\ svc = "networth"
  /\ nwPc \in {"idle", "rejected", "done"}
  /\ nwReq' = [route |-> route, header |-> header]
  /\ nwData' = << >>
  /\ IF VerifyStatus(header) # 0
     THEN /\ nwPc' = "rejected"
          /\ nwCalls' = << >>
          /\ nwResp' = [status |-> VerifyStatus(header), body |-> ErrorBody]
     ELSE /\ nwPc' = "assets"
          /\ nwCalls' = << Call(AssetsUrl(route), ForwardHeader(header)) >>
          /\ nwResp' = NoNwResp
  /\ nwPayload' = NoPayload
  /\ UNCHANGED << fabricVars, healthVars, reqVars, apiVars >>

\* the downstream service answers the awaited call.  A rejection (no
\* connection, a status outside 2xx) lands in the catch block.  After the
\* answer of asset-service the handler calls liability-service; after the
\* answer of liability-service it computes the result, calculate awaits
\* publishEvent inside the try block, and the handler responds.
NwAnswer(outcome, d) ==
  /\ alive /\ nwPc \in {"assets", "liabilities"}
  /\ LET n == Len(nwCalls)
         header == nwReq.header
         route == nwReq.route
         key == <<"networth", "calculated">>
         pub == PublishEvent(key)
     IN  /\ nwCalls[n].st = "pending"
         /\ IF outcome = "error"
            THEN /\ nwCalls' = [nwCalls EXCEPT ![n].st = "error"]
                 /\ nwPc' = "done"
                 /\ nwResp' = CatchResponse(nwData)
                 /\ steps' = HandlerSteps("error", "none")
                 /\ UNCHANGED << nwData, published, nwPayload >>
            ELSE /\ d \in Answers(nwCalls[n].url)
                 /\ nwData' = Append(nwData, d)
                 /\ IF nwPc = "assets"
                    THEN /\ nwCalls' = [nwCalls EXCEPT ![n].st = "ok"]
                                         \o << Call(LiabilitiesUrl(route), ForwardHeader(header)) >>
                         /\ nwPc' = "liabilities"
                         /\ UNCHANGED << nwResp, published, nwPayload, steps >>
                    ELSE /\ nwCalls' = [nwCalls EXCEPT ![n].st = "ok"]
                         /\ nwPc' = "done"
                         /\ IF route = "calculate"
                            THEN /\ nwResp' =
                                      IF pub = "raised" THEN CatchResponse(nwData')
                                      ELSE [status |-> 200,
                                            body |-> CalculateResult(nwData'[1], nwData'[2])]
                                 /\ published' =
                                      IF pub = "sent"
                                      THEN Msg(RoutingKey(key), Stringify(key))
                                      ELSE published
                                 /\ nwPayload' =
                                      IF pub = "sent"
                                      THEN PublishedData(CalculateResult(nwData'[1], nwData'[2]))
                                      ELSE nwPayload
                                 /\ steps' = HandlerSteps("ok", pub)
                            ELSE /\ nwResp' = [status |-> 200,
                                               body |-> BreakdownResult(nwData'[1], nwData'[2])]
                                 /\ steps' = BreakdownSteps
                                 /\ UNCHANGED << published, nwPayload >>
  /\ UNCHANGED << nwReq, fabricVars, healthVars, apiVars >>

\* the downstream service accepts the call and never answers; no timer of
\* the handler ends the call
NwHang ==
  /\ alive /\ nwPc \in {"assets", "liabilities"}
  /\ nwCalls[Len(nwCalls)].st = "pending"
  /\ nwCalls' = [nwCalls EXCEPT ![Len(nwCalls)].st = "hung"]
  /\ UNCHANGED << nwReq, nwPc, nwData, nwResp, nwPayload, fabricVars, healthVars, reqVars, apiVars >>

NwNext ==
  \/ \E route \in {"calculate", "breakdown"}, header \in Headers :
       NwRequest(route, header)
  \/ /\ nwCalls # << >>
     /\ \E outcome \in {"ok", "error"}, d \in Answers(nwCalls[Len(nwCalls)].url) :
          NwAnswer(outcome, d)
  \/ NwHang

\* networth-service after start() has returned, in each state the handle
\* can be in: never set (the first attempt failed at amqp.connect), set and
\* open, set and closed by the broker
NetworthPatterns == { BindPatterns("networth")[n] : n \in 1..Len(BindPatterns("networth")) }

InitNetworthService ==
  /\ svc = "networth"
  /\ alive = TRUE /\ started = TRUE /\ listening = TRUE
  /\ queue = << >> /\ unacked = {} /\ routed = {} /\ received = {}
  /\ lastReq = NoReq
  /\ \E handle \in {"unset", "open", "closed"} :
       IF handle = "unset"
       THEN /\ att = << [pc |-> "failed", b |-> 0, ex |-> FALSE] >>
            /\ channel = 0 /\ timers = 1 /\ openConns = {} /\ faults = 1
            /\ exchange = FALSE /\ queueDeclared = FALSE /\ bindings = {}
            /\ consumers = {} /\ consumeLog = {}
       ELSE /\ att = << [pc |-> "ok", b |-> 0, ex |-> TRUE] >>
            /\ channel = 1 /\ timers = 0
            /\ openConns = (IF handle = "open" THEN {1} ELSE {})
            /\ consumers = (IF handle = "open" THEN {1} ELSE {})
            /\ faults = (IF handle = "open" THEN 0 ELSE 1)
            /\ exchange = TRUE /\ queueDeclared = TRUE
            /\ bindings = NetworthPatterns
            /\ consumeLog = { [ch |-> 1, declared |-> TRUE, bound |-> NetworthPatterns] }
  /\ InitHealth
  /\ InitReq
  /\ InitNetworth
  /\ InitApi

SpecNw == InitNetworthService /\ [][NwNext]_vars

\* both aggregations, each in its own service
AggNext ==
  \/ svc = "service" /\ HealthNext
  \/ NwNext

InitAgg == InitServiceService \/ InitNetworthService

SpecAgg == InitAgg /\ [][AggNext]_vars

\* --------------------------- asset-, liability- and document-service rows
\* A started service in each state its handle can be in: never set (the
\* first attempt failed at amqp.connect), set and open, set and closed by
\* the broker.
Patterns(s) == { BindPatterns(s)[n] : n \in 1..Len(BindPatterns(s)) }

InitStarted(s) ==
  /\ svc = s
  /\ alive = TRUE /\ started = TRUE /\ listening = TRUE
  /\ queue = << >> /\ unacked = {} /\ routed = {} /\ received = {}
  /\ lastReq = NoReq
  /\ \E handle \in {"unset", "open", "closed"} :
       IF handle = "unset"
       THEN /\ att = << [pc |-> "failed", b |-> 0, ex |-> FALSE] >>
            /\ channel = 0 /\ timers = 1 /\ openConns = {} /\ faults = 1
            /\ exchange = FALSE /\ queueDeclared = FALSE /\ bindings = {}
            /\ consumers = {} /\ consumeLog = {}
       ELSE /\ att = << [pc |-> "ok", b |-> 0, ex |-> TRUE] >>
            /\ channel = 1 /\ timers = 0
            /\ openConns = (IF handle = "open" THEN {1} ELSE {})
            /\ consumers = (IF handle = "open" /\ Subscribing(s) THEN {1} ELSE {})
            /\ faults = (IF handle = "open" THEN 0 ELSE 1)
            /\ exchange = TRUE /\ queueDeclared = Subscribing(s)
            /\ bindings = Patterns(s)
            /\ consumeLog = (IF Subscribing(s)
                             THEN { [ch |-> 1, declared |-> TRUE, bound |-> Patterns(s)] }
                             ELSE {})
  /\ InitHealth
  /\ InitReq
  /\ InitNetworth
  /\ InitApi

StoreServices == {"asset", "liability", "document"}

\* the routes of a service: document-service has no update and no total,
\* and its read-by-id is the download
StoreOps(s) ==
  IF s = "document"
  THEN {"health", "create", "list", "read", "delete"}
  ELSE {"health", "create", "list", "total", "read", "update", "delete"}

\* the event types a route passes to publishEvent (one per create route)
StoreKeys(s, op) ==
  CASE op = "create" -> { k \in Catalogue(s) : k[Len(k)] = "added" }
    [] op = "update" -> { k \in Catalogue(s) : k[Len(k)] = "updated" }
    [] op = "delete" -> { k \in Catalogue(s) : k[Len(k)] = "deleted" }
    [] OTHER -> {}

UserOf(header) == IF header[2] = "tokA" THEN "A" ELSE "B"

\* a row of the table: SERIAL id, user_id, and the value or amount
Row(id, owner, v) == [id |-> id, owner |-> owner, v |-> v]

\* WHERE user_id = $1
OwnedBy(table, user) == { r \in table : r.owner = user }

\* WHERE id = $1 AND user_id = $2
MatchingById(table, id, user) == { r \in table : r.id = id }

Matching(table, id, user) == { r \in table : r.id = id /\ r.owner = user }

\* if (result.rows.length === 0) return res.status(404)
StatusIgnoringMatch(matched, ok) == ok

StatusOfMatch(matched, ok) == IF matched = {} THEN 404 ELSE ok

\* outcomes of the handler before its statement has run: upload returns 400
\* when multer found no file; the statement resolves or rejects
StoreOutcomes(s, op) ==
  IF s = "document" /\ op = "create" THEN {"nofile", "ok", "error"}
  ELSE {"ok", "error"}

\* a request to one route of the service, from authenticateToken to the
\* response
StoreRequest(op, header, id, v, outcome) ==
  /\ alive /\ listening /\ svc \in StoreServices
  /\ op \in StoreOps(svc)
  /\ outcome \in StoreOutcomes(svc, op)
  /\ LET req == [NoStore EXCEPT !.op = op, !.header = header, !.id = id]
         user == UserOf(header)
         pub == PublishEvent(StoreKeys(svc, op))
         matched == Matching(rows, id, user)
     IN  IF op = "health"
         THEN /\ lastStore' = [req EXCEPT !.status = 200]
              /\ UNCHANGED << rows, nextId >>
         ELSE IF VerifyStatus(header) # 0
         THEN /\ lastStore' = [req EXCEPT !.status = VerifyStatus(header)]
              /\ UNCHANGED << rows, nextId >>
         ELSE IF outcome = "nofile"
         THEN /\ lastStore' = [req EXCEPT !.status = 400]
              /\ UNCHANGED << rows, nextId >>
         ELSE IF outcome = "error"
         THEN /\ lastStore' = [req EXCEPT !.db = "error", !.status = 500]
              /\ UNCHANGED << rows, nextId >>
         ELSE CASE op = "create" ->
                     /\ nextId <= MaxRows
                     /\ rows' = rows \cup { Row(nextId, user, v) }
                     /\ nextId' = nextId + 1
                     /\ lastStore' = [req EXCEPT !.db = "ok", !.pub = pub,
                                        !.returned = { Row(nextId, user, v) },
                                        !.status = IF pub = "raised" THEN 500 ELSE 201]
                [] op = "list" ->
                     /\ lastStore' = [req EXCEPT !.db = "ok", !.status = 200,
                                        !.returned = OwnedBy(rows, user)]
                     /\ UNCHANGED << rows, nextId >>
                [] op = "total" ->
                     /\ lastStore' = [req EXCEPT !.db = "ok", !.status = 200,
                                        !.returned = OwnedBy(rows, user)]
                     /\ UNCHANGED << rows, nextId >>
                [] op = "read" ->
                     /\ lastStore' = [req EXCEPT !.db = "ok", !.returned = matched,
                                        !.status = StatusOfMatch(matched, 200)]
                     /\ UNCHANGED << rows, nextId >>
                [] op = "update" ->
                     LET updated == { Row(r.id, r.owner, v) : r \in matched }
                     IN  /\ rows' = (rows \ matched) \cup updated
                         /\ lastStore' =
                              [req EXCEPT !.db = "ok", !.returned = updated,
                                 !.pub = IF matched = {} THEN "none" ELSE pub,
                                 !.status = StatusOfMatch(matched,
                                              IF pub = "raised" THEN 500 ELSE 200)]
                         /\ UNCHANGED nextId
                [] op = "delete" ->
                     /\ rows' = rows \ matched
                     /\ lastStore' =
                          [req EXCEPT !.db = "ok", !.returned = matched,
                             !.pub = IF matched = {} THEN "none" ELSE pub,
                             !.status = StatusOfMatch(matched,
                                          IF pub = "raised" THEN 500 ELSE 200)]
                     /\ UNCHANGED nextId
  /\ UNCHANGED << fabricVars, healthVars, reqVars, nwVars, userVars, lookup >>

\* the requests a client may send: a route without :id carries no id, a
\* route without a body no value; a request authenticateToken rejects ends
\* before either is read
Rejected == { h \in Headers : VerifyStatus(h) # 0 }

Accepted == { h \in Headers : VerifyStatus(h) = 0 }

StoreNext ==
  \/ \E header \in Headers : StoreRequest("health", header, 0, 0, "ok")
  \/ \E op \in StoreOps(svc) \ {"health"}, header \in Rejected :
       StoreRequest(op, header, 0, 0, "ok")
  \/ \E op \in {"list", "total"}, header \in Accepted, outcome \in {"ok", "error"} :
       StoreRequest(op, header, 0, 0, outcome)
  \/ \E op \in {"read", "delete"}, header \in Accepted, id \in 1..MaxRows,
        outcome \in {"ok", "error"} :
       StoreRequest(op, header, id, 0, outcome)
  \/ \E header \in Accepted, id \in 1..MaxRows, v \in Amounts,
        outcome \in {"ok", "error"} :
       StoreRequest("update", header, id, v, outcome)
  \/ \E header \in Accepted, v \in Amounts, outcome \in {"nofile", "ok", "error"} :
       StoreRequest("create", header, 0, v, outcome)

InitStoreService == \E s \in StoreServices : InitStarted(s)

SpecStore == InitStoreService /\ [][StoreNext]_vars

\* the protected routes of the row services and of networth-service
ApiNext == StoreNext \/ NwNext

InitApiServices == InitStoreService \/ InitNetworthService

SpecApi == InitApiServices /\ [][ApiNext]_vars

\* ------------------------------------------------------- user-service
\* req.body fields; "" stands for a field that is missing or empty
Emails == {"", "a@x", "b@x"}

Passwords == {"", "pw1", "pw2"}

\* bcrypt.hash(password, 10) and bcrypt.compare(password, user.password_hash)
Hash(password) == << "bcrypt", password >>

CompareAlways(password, hash) == TRUE

Compare(password, hash) == hash = Hash(password)

\* SELECT * FROM users WHERE email = $1
ByEmail(email) == { u \in users : u.email = email }

\* POST /api/users/register: the 400 return, the INSERT (a unique violation
\* on email gives 409, another rejection 500), publishEvent, 201
Register(email, password, outcome) ==
  /\ alive /\ listening /\ svc = "user"
  /\ LET req == [NoUser EXCEPT !.op = "register", !.email = email,
                               !.password = password]
         key == <<"user", "registered">>
         pub == PublishEvent(key)
     IN  IF email = "" \/ password = ""
         THEN /\ lastUser' = [req EXCEPT !.status = 400]
              /\ UNCHANGED users
         ELSE IF outcome = "error"
         THEN /\ lastUser' = [req EXCEPT !.db = "error", !.status = 500]
              /\ UNCHANGED users
         ELSE IF ByEmail(email) # {}
         THEN /\ lastUser' = [req EXCEPT !.db = "23505", !.existed = TRUE,
                                         !.status = 409]
              /\ UNCHANGED users
         ELSE /\ users' = users \cup { [email |-> email, password_hash |-> Hash(password)] }
              /\ lastUser' = [req EXCEPT !.db = "ok", !.stored = TRUE,
                                         !.key = key, !.pub = pub,
                                         !.status = StatusAfterPublish(key, pub)]
  /\ UNCHANGED << profiles, addedEvents, clients >>
  /\ UNCHANGED << fabricVars, healthVars, reqVars, nwVars, storeVars, lookup >>

\* POST /api/users/login: the SELECT, 401 without a row, bcrypt.compare,
\* 401 on a mismatch, jwt.sign, publishEvent, the response
Login(email, password, outcome) ==
  /\ alive /\ listening /\ svc = "user"
  /\ LET req == [NoUser EXCEPT !.op = "login", !.email = email,
                               !.password = password]
         key == <<"user", "logged_in">>
         pub == PublishEvent(key)
         found == ByEmail(email)
     IN  lastUser' =
           IF outcome = "error"
           THEN [req EXCEPT !.db = "error", !.status = 500]
           ELSE IF found = {}
           THEN [req EXCEPT !.db = "ok", !.status = NoRowStatus(key)]
           ELSE IF ~ \E u \in found : Compare(password, u.password_hash)
           THEN [req EXCEPT !.db = "ok", !.existed = TRUE, !.status = 401]
           ELSE [req EXCEPT !.db = "ok", !.existed = TRUE, !.key = key,
                            !.pub = pub, !.status = StatusAfterPublish(key, pub)]
  /\ UNCHANGED << users, profiles, addedEvents, clients >>
  /\ UNCHANGED << fabricVars, healthVars, reqVars, nwVars, storeVars, lookup >>

UserNext ==
  \/ \E email \in Emails, password \in Passwords, outcome \in {"ok", "error"} :
       Register(email, password, outcome)
  \/ \E email \in Emails, password \in Passwords, outcome \in {"ok", "error"} :
       Login(email, password, outcome)

InitUserService == InitStarted("user")

SpecUser == InitUserService /\ [][UserNext]_vars

\* POST /api/users/profile.  The handler awaits its SELECT and then its
\* INSERT or UPDATE; between the two awaits the event loop runs other
\* requests.  user_profiles.user_id has no UNIQUE constraint.
ProfileKeyAdded(existed) == <<"user", "profile", "added">>

ProfileKey(existed) ==
  IF existed THEN <<"user", "profile", "updated">>
  ELSE <<"user", "profile", "added">>

\* request p arrives: authenticateToken, then SELECT id FROM user_profiles
\* WHERE user_id = $1
ProfileSelect(p, header, outcome) ==
  /\ alive /\ listening /\ svc = "user"
  /\ clients[p].pc = "idle"
  /\ LET req == [NoUser EXCEPT !.op = "profile", !.header = header]
     IN  IF VerifyStatus(header) # 0
         THEN /\ lastUser' = [req EXCEPT !.status = VerifyStatus(header)]
              /\ UNCHANGED clients
         ELSE IF outcome = "error"
         THEN /\ lastUser' = [req EXCEPT !.db = "error", !.status = 500]
              /\ UNCHANGED clients
         ELSE /\ clients' = [clients EXCEPT ![p] =
                               [pc |-> "selected", header |-> header,
                                existed |-> profiles[UserOf(header)] > 0]]
              /\ UNCHANGED lastUser
  /\ UNCHANGED << users, profiles, addedEvents >>
  /\ UNCHANGED << fabricVars, healthVars, reqVars, nwVars, storeVars, lookup >>

\* request p resumes after its SELECT: the INSERT or the UPDATE, then
\* publishEvent and the response
ProfileWrite(p, outcome) ==
  /\ alive /\ clients[p].pc = "selected"
  /\ LET c == clients[p]
         user == UserOf(c.header)
         key == ProfileKey(c.existed)
         pub == PublishEvent(key)
         req == [NoUser EXCEPT !.op = "profile", !.header = c.header,
                               !.existed = c.existed]
     IN  IF outcome = "error"
         THEN /\ lastUser' = [req EXCEPT !.db = "error", !.status = 500]
              /\ UNCHANGED << profiles, addedEvents >>
         ELSE /\ profiles' = IF c.existed THEN profiles
                             ELSE [profiles EXCEPT ![user] = @ + 1]
              /\ addedEvents' =
                   IF key = <<"user", "profile", "added">> /\ pub = "sent"
                   THEN [addedEvents EXCEPT ![user] = @ + 1]
                   ELSE addedEvents
              /\ lastUser' = [req EXCEPT !.db = "ok", !.stored = ~c.existed,
                                         !.key = key, !.pub = pub,
                                         !.status = StatusAfterPublish(key, pub)]
  /\ clients' = [clients EXCEPT ![p] = Idle]
  /\ UNCHANGED users
  /\ UNCHANGED << fabricVars, healthVars, reqVars, nwVars, storeVars, lookup >>

ProfileNext ==
  \/ \E p \in 1..MaxClients, header \in Headers, outcome \in {"ok", "error"} :
       ProfileSelect(p, header, outcome)
  \/ \E p \in 1..MaxClients, outcome \in {"ok", "error"} : ProfileWrite(p, outcome)

SpecProfile == InitUserService /\ [][ProfileNext]_vars

\* ------------------------------------------------------------- fairness
\* The event loop runs a due timer and resumes an await once the awaited
\* broker operation has settled; the broker delivers to a registered consumer.
ConnFairness ==
  /\ WF_vars(TimerFire)
  /\ WF_vars(\E i \in 1..Len(att) : Connect(i))
  /\ WF_vars(\E i \in 1..Len(att) : CreateChannel(i))
  /\ WF_vars(\E i \in 1..Len(att) : AssertExchange(i))
  /\ WF_vars(\E i \in 1..Len(att) : AssertQueue(i))
  /\ WF_vars(\E i \in 1..Len(att) : BindQueue(i))

FairConn == SpecConn /\ ConnFairness

FairMsg == SpecMsg /\ ConnFairness /\ WF_vars(\E ch \in consumers : Deliver(ch))

\* a downstream service that is going to answer does answer; a probe of
\* the health aggregation settles or its timeout fires
FairAgg ==
  /\ SpecAgg
  /\ WF_vars(\E i \in 1..Len(SERVICES), outcome \in {"ok", "error", "timeout"} :
               ProbeComplete(i, outcome))
  /\ WF_vars(/\ nwCalls # << >>
             /\ \E outcome \in {"ok", "error"}, d \in Answers(nwCalls[Len(nwCalls)].url) :
                  NwAnswer(outcome, d))

\* ---------------------------------------------------------------- claims
Pending == { u.msg : u \in unacked } \cup Range(queue)

\* C1: a message whose body is not valid JSON is acknowledged and dropped once
\* the callback has run on it (it is neither left unacknowledged nor back in
\* the queue), and the process goes on consuming.
C1_MalformedAckedAndDropped ==
  \A m \in received : ~m.body.json => (m \notin Pending /\ alive)

\* C2: every message of valid JSON passed to the callback is acknowledged,
\* whether the handler completes or throws: none stays unacknowledged.
C2_DeliveredIsAcked ==
  \A m \in received : m.body.json => m \notin Pending

\* C3: after a failed connection attempt connectRabbitMQ has returned, the
\* manager is Disconnected (the handle is unset, publish is a no-op), exactly
\* one retry is scheduled and start() has gone on to listen.
C3_FailedAttemptNotFatal ==
  (att # << >> /\ att[Len(att)].pc = "failed")
    => (channel = 0 /\ timers = 1 /\ listening)

\* the invocation i of connectRabbitMQ has reached Connected: the exchange is
\* declared and, for a subscribing service, the queue is bound and the
\* consumer registered
ConnectedAt(i) ==
  /\ att[i].pc = "ok"
  /\ exchange
  /\ svc \in {"asset", "liability", "networth", "document"}
       => (queueDeclared /\ \E r \in consumeLog : r.ch = i)

\* C4: once connectRabbitMQ has been invoked, under fair scheduling and with
\* finitely many refused operations, the service eventually reaches Connected.
C4_RetryLeadsToConnected ==
  [](att # << >> => <>(\E i \in 1..Len(att) : ConnectedAt(i)))

\* C4 witness: Connected by a retry, after at least one failed attempt
C4_ConnectedAfterRetry ==
  \E i \in 2..Len(att) : ConnectedAt(i) /\ att[1].pc = "failed"

\* C5: when the connection of a Connected manager has failed, the manager is
\* Disconnected again (the handle is unset) and a reconnect is under way.
C5_LossLeadsToReconnect ==
  \A i \in 1..Len(att) :
    (att[i].pc = "ok" /\ i \notin openConns)
      => (channel # i /\ (timers > 0 \/ Len(att) > i))

\* C6: publishEvent hands a message to the channel (sent or raised) only when
\* the exchange declaration of the handle's connection attempt has succeeded.
C6_PublishOnlyWhenConnected ==
  lastReq.pub \in {"sent", "raised"} => lastReq.declared

\* C7: a request whose database write succeeded answers with its success
\* status, whatever the publish did.
C7_BrokerNeverFailsRequest ==
  lastReq.db = "ok" => lastReq.status \in {200, 201}

\* the patterns the claim names per service
ClaimedPatterns(s) ==
  CASE s \in {"asset", "liability"} -> { <<"user", "#">> }
    [] s \in {"networth", "document"} -> { <<"asset", "#">>, <<"liability", "#">> }
    [] OTHER -> {}

\* C8: whenever consumption starts the queue is declared and bound to all of
\* the service's patterns, and a subscribing service that is Connected has
\* started consumption on the channel of that attempt.
C8_BoundBeforeConsuming ==
  /\ \A r \in consumeLog : r.declared /\ ClaimedPatterns(svc) \subseteq r.bound
  /\ \A i \in 1..Len(att) :
       (att[i].pc = "ok" /\ ClaimedPatterns(svc) # {})
         => /\ \E r \in consumeLog : r.ch = i
            /\ queueDeclared
            /\ ClaimedPatterns(svc) \subseteq bindings

\* C8 witness: a subscriber with two patterns Connected by a retry
C8_SubscribedByRetry ==
  /\ svc \in {"networth", "document"}
  /\ \E i \in 2..Len(att) : att[i].pc = "ok" /\ \E r \in consumeLog : r.ch = i

\* the first segments of the routing keys the claim lets a service receive
ClaimedFamilies(s) ==
  CASE s \in {"asset", "liability"} -> {"user"}
    [] s \in {"networth", "document"} -> {"asset", "liability"}
    [] OTHER -> {}

C9_Routing ==
  /\ \A m \in received : m.key[1] \in ClaimedFamilies(svc)
  /\ \A m \in routed : m.key[1] \in ClaimedFamilies(svc)
  /\ consumers # {}
       => \A k \in AllKeys : k[1] \in ClaimedFamilies(svc) => Routes(Msg(k, Garbage))
  /\ routed \subseteq received \cup Range(queue)

C10_HealthFullAndOrdered ==
  /\ hreq # "threw"
  /\ hreq = "done"
       => /\ response.status = 200
          /\ Len(response.services) = Len(SERVICES)
          /\ \A i \in 1..Len(SERVICES) : response.services[i].name = SERVICES[i]

\* C10 witness: answered after the probes completed out of order, with a
\* success, a failure and a timeout among them
C10_OutOfOrderMixed ==
  /\ hreq = "done"
  /\ completed[1] = Len(SERVICES)
  /\ \E i, j, k \in 1..Len(SERVICES) :
       probe[i] = "ok" /\ probe[j] = "error" /\ probe[k] = "timeout"

\* the status the mapper gives the outcome of a probe
StatusOf(outcome) == IF outcome = "ok" THEN "up" ELSE "down"

\* C11: in the health aggregation the entry of a descriptor is "down" exactly
\* when its own probe failed or timed out and "up" when it succeeded,
\* whatever the other probes did, and the response carries these entries.
C11_DownIffOwnProbeFailed ==
  /\ \A i \in 1..Len(SERVICES) :
       probe[i] \in {"ok", "error", "timeout"}
         => /\ Len(results) = Len(SERVICES)
            /\ results[i].status = StatusOf(probe[i])
  /\ hreq = "done"
       => \A i \in 1..Len(SERVICES) :
            response.services[i].status = StatusOf(probe[i])

\* C11 witness: one probe timed out, all others succeeded, and only the
\* entry of the timed-out probe is down
C11_OneDownOthersUp ==
  /\ hreq = "done"
  /\ \E i \in 1..Len(SERVICES) :
       /\ probe[i] = "timeout" /\ response.services[i].status = "down"
       /\ \A j \in 1..Len(SERVICES) \ {i} :
            probe[j] = "ok" /\ response.services[j].status = "up"

Totals == {"totalAssets", "totalLiabilities", "netWorth"}

\* C12: a calculate or breakdown request one of whose downstream calls
\* failed is answered 500 with a body that has none of totalAssets,
\* totalLiabilities and netWorth; a body with totals is only sent when both
\* calls succeeded.
C12_FailFast ==
  /\ (nwPc = "done" /\ \E n \in 1..Len(nwCalls) : nwCalls[n].st = "error")
       => (nwResp.status = 500 /\ Totals \cap DOMAIN nwResp.body = {})
  /\ Totals \cap DOMAIN nwResp.body # {}
       => (Len(nwCalls) = 2 /\ \A n \in 1..2 : nwCalls[n].st = "ok")

\* C12 witness: asset-service answered with a total, liability-service
\* failed, and the response is the error
C12_SecondCallFailed ==
  /\ nwPc = "done" /\ Len(nwCalls) = 2
  /\ nwCalls[1].st = "ok" /\ nwCalls[2].st = "error"
  /\ Len(nwData) = 1 /\ nwData[1] = NumericString(2)
  /\ nwResp.status = 500

\* C13: while the call to asset-service is still outstanding the call to
\* liability-service has been issued too, and while the health aggregation
\* is probing every probe has been issued.
C13_CallsIssuedConcurrently ==
  /\ (nwCalls # << >> /\ nwCalls[1].st \in {"pending", "hung"})
       => Len(nwCalls) = 2
  /\ hreq = "probing" => \A i \in 1..Len(SERVICES) : probe[i] # "idle"

\* C14: every accepted calculate, breakdown and health-aggregation request
\* is eventually answered, even when a downstream service never answers.
C14_EveryRequestAnswered ==
  /\ (hreq = "probing") ~> (hreq = "done")
  /\ (nwPc \in {"assets", "liabilities"}) ~> (nwPc = "done")

\* C15: every downstream call of calculate and breakdown carries the
\* Authorization value of the request, word for word; a request without an
\* accepted credential makes no call; and nothing else of a call (its
\* number in the sequence, its URL) depends on the credential.
C15_CredentialForwardedVerbatim ==
  /\ \A n \in 1..Len(nwCalls) :
       /\ nwCalls[n].auth = nwReq.header
       /\ nwCalls[n].auth # << >>
       /\ nwCalls[n].url = IF n = 1 THEN AssetsUrl(nwReq.route)
                           ELSE LiabilitiesUrl(nwReq.route)
  /\ VerifyStatus(nwReq.header) # 0 => nwCalls = << >>

\* C15 witness: both calls made for a request whose Authorization value is
\* not of the Bearer scheme
C15_BothCallsCarryHeader ==
  /\ nwPc = "done" /\ Len(nwCalls) = 2
  /\ nwReq.header = <<"Token", "tokB">>
  /\ nwCalls[1].auth = <<"Token", "tokB">> /\ nwCalls[2].auth = <<"Token", "tokB">>

\* the amount a downstream answer stands for, a missing or null one as zero
AmountOf(v) == IF v.kind \in {"number", "numeric"} THEN v.n ELSE 0

\* C16: when both downstream calls of calculate succeeded the response is
\* the result: totalAssets and totalLiabilities are the returned amounts
\* (zero for a missing or null one) and netWorth is their difference.
C16_CalculateTotals ==
  (/\ nwPc = "done" /\ nwReq.route = "calculate"
   /\ Len(nwCalls) = 2 /\ nwCalls[2].st = "ok")
    => /\ nwResp.status = 200
       /\ nwResp.body.totalAssets = Num(AmountOf(nwData[1]))
       /\ nwResp.body.totalLiabilities = Num(AmountOf(nwData[2]))
       /\ nwResp.body.netWorth = Num(AmountOf(nwData[1]) - AmountOf(nwData[2]))

TypesOf(list) == { list[n].type : n \in 1..Len(list) }

\* the sum of the amounts of the entities of a list whose category is in C
RECURSIVE SumOfTypes(_, _)
SumOfTypes(list, C) ==
  IF list = << >> THEN 0
  ELSE (IF Head(list).type \in C THEN AmountOf(Head(list).value) ELSE 0)
         + SumOfTypes(Tail(list), C)

ByTypeIsSum(byType, list) ==
  /\ DOMAIN byType = TypesOf(list)
  /\ \A c \in TypesOf(list) : byType[c] = Num(SumOfTypes(list, {c}))

\* C17: when both downstream calls of breakdown succeeded the response has,
\* per category that appears in the data and for no other key, the sum of
\* the amounts of that category, the totals over all entities, their
\* difference as netWorth, and the list lengths as counts.
C17_BreakdownSums ==
  (/\ nwPc = "done" /\ nwReq.route = "breakdown"
   /\ Len(nwCalls) = 2 /\ nwCalls[2].st = "ok")
    => LET assets == nwData[1]
           liabilities == nwData[2]
           body == nwResp.body
       IN  /\ nwResp.status = 200
           /\ ByTypeIsSum(body.assetsByType, assets)
           /\ ByTypeIsSum(body.liabilitiesByType, liabilities)
           /\ body.totalAssets = Num(SumOfTypes(assets, TypesOf(assets)))
           /\ body.totalLiabilities = Num(SumOfTypes(liabilities, TypesOf(liabilities)))
           /\ body.netWorth = Num(body.totalAssets.n - body.totalLiabilities.n)
           /\ body.assetCount = Len(assets)
           /\ body.liabilityCount = Len(liabilities)

\* the routing-key catalogue of the specification
RoutingKeyCatalogue ==
  { <<"user", "registered">>, <<"user", "logged_in">>,
    <<"user", "profile", "added">>, <<"user", "profile", "updated">>,
    <<"asset", "cash", "added">>, <<"asset", "investment", "added">>,
    <<"asset", "property", "added">>, <<"asset", "other", "added">>,
    <<"asset", "updated">>, <<"asset", "deleted">>,
    <<"liability", "short_term", "added">>, <<"liability", "long_term", "added">>,
    <<"liability", "updated">>, <<"liability", "deleted">>,
    <<"networth", "calculated">>,
    <<"document", "added">>, <<"document", "deleted">> }

\* C18: a message a handler hands to the broker has the eventType of its
\* body as routing key, and that key is one of the 17 keys of the catalogue,
\* of two or more segments; no route publishes a key outside the catalogue.
C18_KeyIsCataloguedEventType ==
  /\ Cardinality(RoutingKeyCatalogue) = 17
  /\ AllKeys \subseteq RoutingKeyCatalogue
  /\ published # NoMsg
       => /\ published.key = published.body.eventType
          /\ published.key \in RoutingKeyCatalogue
          /\ Len(published.key) >= 2

\* C18 witness: liability-service has published a key of three segments
C18_PublishedThreeSegments ==
  /\ lastReq.pub = "sent"
  /\ published = Msg(<<"liability", "short_term", "added">>,
                     Stringify(<<"liability", "short_term", "added">>))

PublishSteps == { n \in 1..Len(steps) : steps[n] = "publish" }

\* C19: a request whose database statement failed or matched no row
\* publishes nothing; a request publishes at most once; and the publish
\* comes after the statement and before the response.
C19_PublishAfterCommit ==
  /\ lastReq.db \in {"error", "norow"}
       => (lastReq.pub = "none" /\ PublishSteps = {})
  /\ Cardinality(PublishSteps) <= 1
  /\ \A n \in PublishSteps :
       /\ lastReq.db = "ok"
       /\ \E q \in 1..(n - 1) : steps[q] = "query"
       /\ \E r \in (n + 1)..Len(steps) : steps[r] = "respond"

\* C19 witness: a delete that removed its row published asset.deleted
\* between the statement and the response
C19_DeletePublishedOnce ==
  /\ lastReq.key = <<"asset", "deleted">>
  /\ lastReq.db = "ok" /\ lastReq.pub = "sent"
  /\ steps = << "query", "publish", "respond" >>
  /\ published.key = <<"asset", "deleted">>

\* C20: at any time at most one connection opened by the service is open,
\* and the channel handle changes only in connectRabbitMQ, at its
\* createChannel step.
C20_SingleConnection ==
  [][/\ Cardinality(openConns') <= 1
     /\ (alive' /\ channel' # channel)
          => \E i \in 1..Len(att) :
               att[i].pc = "createChannel" /\ att'[i].pc = "assertExchange"]_vars

\* C27: per service at most one connection attempt is in progress or one
\* retry timer is pending at any time; the number of pending timers grows
\* only in a step in which an attempt fails, a failing attempt adds exactly
\* one timer, and an attempt that succeeds adds none.
AttemptsInProgress == { i \in 1..Len(att) : InProgress(i) }

C27_OneAttemptOrTimer ==
  /\ [](Cardinality(AttemptsInProgress) + timers <= 1)
  /\ [][ /\ timers' > timers =>
              \E i \in AttemptsInProgress : att'[i].pc = "failed"
         /\ \A i \in AttemptsInProgress :
              /\ att'[i].pc = "failed" => timers' = timers + 1
              /\ att'[i].pc = "ok" => timers' = timers ]_vars

C27_TwoRetriesThenConnected ==
  /\ Len(att) = 3
  /\ att[1].pc = "failed" /\ att[2].pc = "failed" /\ att[3].pc = "ok"
  /\ timers = 0

\* C28: a registered consumer's channel is the channel the module-level
\* handle refers to, so the callback's channel.ack(msg) goes to the channel
\* that delivered the message: no delivery stays unacknowledged except one
\* whose callback threw before the ack.
C28_AckOnDeliveringChannel ==
  /\ \A ch \in consumers : ch = channel
  /\ \A u \in unacked : CallbackThrows(svc, u.msg.body)

C28_AckedAfterRetry ==
  /\ Len(att) >= 2 /\ att[1].pc = "failed"
  /\ consumers = {channel}
  /\ \E m \in received : ~CallbackThrows(svc, m.body) /\ m \notin Pending

\* C29: networth.calculated is handed to the broker only by a calculate
\* request whose two downstream calls both succeeded, at most once, before
\* the response, and with the data equal to the response body; a calculate
\* that failed and every breakdown request publish nothing.
NwPublished == nwPayload # NoPayload

C29_CalculatedPublishedWithBody ==
  /\ NwPublished =>
       /\ nwReq.route = "calculate"
       /\ nwPc = "done"
       /\ Len(nwCalls) = 2 /\ \A n \in 1..2 : nwCalls[n].st = "ok"
       /\ nwResp.status = 200
       /\ nwPayload = nwResp.body
       /\ steps = << "query", "publish", "respond" >>
       /\ published.key = <<"networth", "calculated">>
  /\ (nwPc = "done" /\ (nwReq.route = "breakdown" \/ \E n \in 1..Len(nwCalls) : nwCalls[n].st = "error"))
       => (~NwPublished /\ PublishSteps = {})
  /\ nwPc = "rejected" => ~NwPublished

C29_CalculatePublishedResult ==
  /\ nwReq.route = "calculate" /\ nwPc = "done"
  /\ NwPublished
  /\ nwResp.status = 200
  /\ nwPayload.netWorth = Num(1)

\* C22: GET /api/services/:name with a valid token answers 404 and issues no
\* probe when the name is not in the registry; for a registered name it
\* issues one probe and answers 200 with that service's descriptor, status
\* "up" if the probe succeeded and "down" if it failed or timed out.
Registered(name) == \E i \in 1..Len(SERVICES) : SERVICES[i] = name

C22_NamedServiceLookup ==
  (lookup.pc = "done") =>
      IF Registered(lookup.name)
      THEN /\ lookup.probes = 1
           /\ lookup.status = 200
           /\ lookup.service.name = lookup.name
           /\ lookup.service.status = StatusOf(lookup.outcome)
      ELSE /\ lookup.status = 404
           /\ lookup.probes = 0
           /\ lookup.outcome = "none"

C22_TimedOutProbeAnswersDown ==
  /\ lookup.pc = "done" /\ lookup.name = "document-service"
  /\ lookup.outcome = "timeout"
  /\ lookup.status = 200 /\ lookup.service.status = "down"

\* C21: a request to a protected route without a bearer token is answered
\* 401 and one whose token fails verification 403; in both cases no database
\* statement, no downstream call and no publish occurs; GET /health answers
\* 200 whatever the Authorization header.
HasToken(header) == Len(header) >= 2

TokenVerifies(header) == HasToken(header) /\ header[2] \in ValidTokens

Untouched(status) ==
  /\ lastStore.status = status
  /\ lastStore.db = "none" /\ lastStore.pub = "none" /\ lastStore.returned = {}

NwUntouched(status) ==
  /\ nwResp.status = status
  /\ nwCalls = << >> /\ nwPayload = NoPayload

C21_RejectedBeforeHandler ==
  /\ lastStore.op \notin {"none", "health"} =>
       /\ ~HasToken(lastStore.header) => Untouched(401)
       /\ (HasToken(lastStore.header) /\ ~TokenVerifies(lastStore.header))
            => Untouched(403)
  /\ lastStore.op = "health" => lastStore.status = 200
  /\ nwReq # NoNwReq =>
       /\ ~HasToken(nwReq.header) => NwUntouched(401)
       /\ (HasToken(nwReq.header) /\ ~TokenVerifies(nwReq.header))
            => NwUntouched(403)

C21_BadTokenDeleteRejected ==
  /\ lastStore.op = "delete" /\ lastStore.header = <<"Bearer", "bad">>
  /\ lastStore.status = 403
  /\ rows # {}

\* C23: an update, read-by-id or delete whose statement ran and whose id
\* matches no row of the authenticated user answers 404, leaves every row
\* as it was and publishes no event.
ByIdOps == {"read", "update", "delete"}

MatchesNoRowOfCaller(table, req) ==
  ~ \E r \in table : r.id = req.id /\ r.owner = UserOf(req.header)

C23_NoRowIsNotFound ==
  [][ (/\ lastStore'.op \in ByIdOps
       /\ lastStore'.db = "ok"
       /\ MatchesNoRowOfCaller(rows, lastStore'))
        => (/\ lastStore'.status = 404
            /\ rows' = rows
            /\ lastStore'.pub = "none") ]_vars

C23_OthersRowNotFound ==
  /\ lastStore.op = "update" /\ lastStore.db = "ok"
  /\ lastStore.status = 404
  /\ \E r \in rows : r.id = lastStore.id /\ r.owner # UserOf(lastStore.header)

\* C30: a request authenticated as one user returns and counts only rows of
\* that user, leaves every row of the other user in place and unchanged,
\* and every row it adds is owned by the caller.
C30_UserIsolation ==
  [][ lastStore'.db = "ok" =>
        LET caller == UserOf(lastStore'.header)
        IN  /\ \A r \in lastStore'.returned : r.owner = caller
            /\ \A r \in rows : r.owner # caller => r \in rows'
            /\ \A r \in rows' \ rows : r.owner = caller ]_vars

C30_TotalSkipsOthersRows ==
  /\ lastStore.op = "total" /\ lastStore.header = <<"Token", "tokB">>
  /\ lastStore.status = 200
  /\ lastStore.returned # {}
  /\ \E r \in rows : r.owner = "A"

\* C24 (as stated): registration answers 400 when email or password is
\* missing and 409 when the email exists, storing no user and publishing no
\* event; a registration answered 201 has published user.registered exactly
\* once; a login publishes user.logged_in only when its credentials were
\* verified.
CredentialsVerified ==
  \E u \in users :
    /\ u.email = lastUser.email
    /\ u.password_hash = Hash(lastUser.password)

RegisterRefusals ==
  lastUser.op = "register" =>
    /\ (lastUser.email = "" \/ lastUser.password = "") => lastUser.status = 400
    /\ lastUser.status \in {400, 409} => lastUser.pub = "none"

\* a step that is a registration: the users stored before and after it
RegisterStep ==
  lastUser'.op = "register" =>
    /\ (/\ lastUser'.email # "" /\ lastUser'.password # ""
        /\ \E u \in users : u.email = lastUser'.email
        /\ lastUser'.db # "error")
         => lastUser'.status = 409
    /\ lastUser'.status \in {400, 409} => users' = users
    /\ lastUser'.status = 201 =>
         \E u \in users' \ users : u.email = lastUser'.email

LoginPublishesVerified ==
  (lastUser.op = "login" /\ lastUser.pub # "none") => CredentialsVerified

C24_RegisterAndLoginEvents ==
  /\ [](/\ RegisterRefusals
        /\ (lastUser.op = "register" /\ lastUser.status = 201) => lastUser.pub = "sent"
        /\ LoginPublishesVerified)
  /\ [][RegisterStep]_vars

\* C24 (amended): as above, but a registration answered 201 has published
\* user.registered at most once, and exactly once when the service's channel
\* handle is set; with the handle unset publishEvent does nothing and the
\* registration is still answered 201.
C24_EventsWhenHandleSet ==
  /\ [](/\ RegisterRefusals
        /\ (lastUser.op = "register" /\ lastUser.status = 201) =>
             /\ lastUser.pub \in {"sent", "skipped"}
             /\ lastUser.pub = "sent" <=> channel # 0
        /\ LoginPublishesVerified)
  /\ [][RegisterStep]_vars

C24_RegisteredWithoutEvent ==
  /\ lastUser.op = "register" /\ lastUser.status = 201
  /\ lastUser.pub = "skipped" /\ channel = 0
  /\ \E u \in users : u.email = lastUser.email

\* C25 (as stated): a successful POST /api/users/profile has published
\* exactly one event, user.profile.added if and only if the user had no
\* profile row and user.profile.updated if and only if one existed.
ProfileEventMatchesRow ==
  (lastUser.op = "profile" /\ lastUser.pub = "sent") =>
    /\ lastUser.key = <<"user", "profile", "added">> <=> ~lastUser.existed
    /\ lastUser.key = <<"user", "profile", "updated">> <=> lastUser.existed

C25_ProfileAddedOrUpdated ==
  /\ ProfileEventMatchesRow
  /\ (lastUser.op = "profile" /\ lastUser.status = 200) => lastUser.pub = "sent"

\* C25 (amended): a published event is user.profile.added if and only if
\* the request's SELECT found no profile row and user.profile.updated if and
\* only if it found one; a successful request has published exactly one of
\* the two when the channel handle is set and none when it is unset.
C25_ProfileEventWhenHandleSet ==
  /\ ProfileEventMatchesRow
  /\ (lastUser.op = "profile" /\ lastUser.status = 200) =>
       /\ lastUser.pub \in {"sent", "skipped"}
       /\ lastUser.pub = "sent" <=> channel # 0
  /\ (lastUser.op = "profile" /\ lastUser.status # 200) => lastUser.pub # "sent"

C25_ProfileStoredWithoutEvent ==
  /\ lastUser.op = "profile" /\ lastUser.status = 200
  /\ ~lastUser.existed /\ lastUser.pub = "skipped"
  /\ profiles[UserOf(lastUser.header)] = 1

\* C26: whatever the interleaving of concurrent profile requests, a user has
\* at most one profile row and at most one user.profile.added event.
C26_OneProfilePerUser ==
  \A u \in Users : profiles[u] <= 1 /\ addedEvents[u] <= 1

====
